---- MODULE Spec2Model ----
\* Model of `forge run`'s build-and-link pipeline (cli/src/cmd/run.rs,
\* RunArgs::build) and of the library linker it calls.
\*
\* Strings are sequences of one-character strings, so that `+ ":" +` and
\* `split(':')` are computed as the code computes them.
EXTENDS Integers, Sequences, FiniteSets, TLC

\* ---------------------------------------------------------------- bounds
\* Largest number of link references (edges contract -> library) in one
\* artifact set of the link family; 4 is a diamond.
MaxLinkRefs == 4
\* Largest number of artifacts of the target family that are not plain
\* deployable contracts (not indexed, no abi, no bytecode, abstract, ...).
MaxOdd == 2
\* Largest transaction count the remote node answers with.
MaxCount == 1

\* ---------------------------------------------------------------- strings
\* Byte value of a character: the order of String keys in a BTreeMap.
Ord(c) ==
  CASE c = ":" -> 58
    [] c = "A" -> 65
    [] c = "B" -> 66
    [] c = "L" -> 76
    [] c = "M" -> 77
    [] c = "X" -> 88
    [] c = "Z" -> 90
    [] c = "c" -> 99
    [] c = "f" -> 102
    [] c = "g" -> 103

\* a < b in the byte-wise lexicographic order of Rust's str.
RECURSIVE StrLess(_, _)
StrLess(a, b) ==
  IF b = <<>> THEN FALSE
  ELSE IF a = <<>> THEN TRUE
  ELSE IF Ord(Head(a)) # Ord(Head(b)) THEN Ord(Head(a)) < Ord(Head(b))
  ELSE StrLess(Tail(a), Tail(b))

\* The elements of a finite set of strings in ascending order: the iteration
\* order of BTreeMap::keys().
RECURSIVE SortedKeys(_)
SortedKeys(S) ==
  IF S = {} THEN <<>>
  ELSE LET m == CHOOSE x \in S : \A y \in S \ {x} : StrLess(x, y)
       IN <<m>> \o SortedKeys(S \ {m})

\* str::split(':') collected into a Vec: always at least one piece.
RECURSIVE SplitFrom(_, _)
SplitFrom(cur, rest) ==
  IF rest = <<>> THEN <<cur>>
  ELSE IF Head(rest) = ":" THEN <<cur>> \o SplitFrom(<<>>, Tail(rest))
  ELSE SplitFrom(Append(cur, Head(rest)), Tail(rest))

Split(s) == SplitFrom(<<>>, s)

\* source.to_string() + ":" + n
ArtifactKey(file, name) == file \o <<":">> \o name

\* ---------------------------------------------------------------- bytecode
\* A bytecode object is a sequence of slots: plain code ("op"), a library
\* placeholder ("ph", naming the library's file and name) or a patched-in
\* address ("addr"; file and key remember which placeholder it replaced).
OpSlot(n) == [t |-> "op", file |-> <<>>, key |-> <<>>, a |-> <<"code", n>>]
PhSlot(file, key) == [t |-> "ph", file |-> file, key |-> key, a |-> <<"none", 0>>]

\* BytecodeObject::Unlinked: some placeholder is left.
IsUnlinked(obj) == \E i \in 1..Len(obj) : obj[i].t = "ph"

\* BytecodeObject::Bytecode with no bytes (an interface or abstract contract).
IsEmptyBytes(obj) == obj = <<>>

\* ethers get_contract_address(sender, nonce): injective in the nonce.
Sender == "sender"
ContractAddress(sender, nonce) == <<sender, nonce>>

\* CompactBytecode::link(file, key, addr): every placeholder of file:key is
\* replaced by the address.
Link(obj, file, key, addr) ==
  [i \in 1..Len(obj) |->
     IF obj[i].t = "ph" /\ obj[i].file = file /\ obj[i].key = key
     THEN [obj[i] EXCEPT !.t = "addr", !.a = addr]
     ELSE obj[i]]

NoBytecode == [some |-> FALSE, object |-> <<>>]
SomeBytecode(obj) == [some |-> TRUE, object |-> obj]
\* CompactDeployedBytecode: Option<CompactDeployedBytecode> holding an
\* Option<CompactBytecode>.
NoDeployed == [some |-> FALSE, bytecode |-> NoBytecode]
SomeDeployed(bc) == [some |-> TRUE, bytecode |-> bc]

\* CompactContractBytecode { abi: None, bytecode: None, deployed_bytecode: None }
EmptyContract == [abi |-> FALSE, bytecode |-> NoBytecode, deployed_bytecode |-> NoDeployed]

\* The (file, key) pairs of the placeholders of one object.
PlaceholdersOf(bc) ==
  IF bc.some
  THEN {<<bc.object[i].file, bc.object[i].key>> :
          i \in {j \in 1..Len(bc.object) : bc.object[j].t = "ph"}}
  ELSE {}

\* Order of the nested BTreeMap<file, BTreeMap<key, offsets>>.
PairLess(p, q) == StrLess(p[1], q[1]) \/ (p[1] = q[1] /\ StrLess(p[2], q[2]))

RECURSIVE SortedPairs(_)
SortedPairs(S) ==
  IF S = {} THEN <<>>
  ELSE LET m == CHOOSE x \in S : \A y \in S \ {x} : PairLess(x, y)
       IN <<m>> \o SortedPairs(S \ {m})

\* CompactContractBytecode::all_link_references(): the link references of
\* the creation and of the runtime bytecode merged into one map, so every
\* (file, key) occurs once however many placeholders it has.
AllLinkReferences(c) ==
  SortedPairs(PlaceholdersOf(c.bytecode) \cup
              (IF c.deployed_bytecode.some
               THEN PlaceholdersOf(c.deployed_bytecode.bytecode) ELSE {}))

\* ---------------------------------------------------------------- inputs
\* File and contract names of the modelled compiler outputs.
fileF == <<"f">>
fileCF == <<"c", ":", "f">>
fileG == <<"g">>
nameA == <<"A">>
nameB == <<"B">>
nameL == <<"L">>
nameM == <<"M">>
nameX == <<"X">>
nameZ == <<"Z">>

\* Libraries a placeholder may name; g:X is never part of a compiler output.
LibUnits == {<<fileG, nameB>>, <<fileG, nameL>>, <<fileG, nameM>>, <<fileG, nameX>>}
\* The (source file, contract name) pairs of an output whose script is sf.
UnitsOf(sf) == {<<sf, nameA>>, <<fileG, nameB>>, <<fileG, nameL>>, <<fileG, nameM>>}

CodeId(u) ==
  CASE u[2] = nameA -> 1 [] u[2] = nameB -> 2 [] u[2] = nameL -> 3 [] u[2] = nameM -> 4

RECURSIVE PhSlots(_)
PhSlots(pairs) ==
  IF pairs = <<>> THEN <<>>
  ELSE <<PhSlot(Head(pairs)[1], Head(pairs)[2])>> \o PhSlots(Tail(pairs))

Kinds == {"full", "ctoronly", "noabi", "nocreation", "noruntime", "nortbc", "abstract", "absent"}

\* One artifact as solc emits it: the creation bytecode is the constructor
\* code followed by the runtime code, so a library the runtime code calls
\* has a placeholder in both.
MkContract(u, kind, refs) ==
  LET phs == PhSlots(SortedPairs(refs))
      rtFull == <<OpSlot(CodeId(u))>> \o phs
      rtBare == <<OpSlot(CodeId(u))>>
      crFull == <<OpSlot(10 + CodeId(u))>> \o phs \o rtFull
      crCtor == <<OpSlot(10 + CodeId(u))>> \o phs \o rtBare
  IN CASE kind = "full" ->
            [abi |-> TRUE, bytecode |-> SomeBytecode(crFull),
             deployed_bytecode |-> SomeDeployed(SomeBytecode(rtFull))]
       [] kind = "ctoronly" ->
            [abi |-> TRUE, bytecode |-> SomeBytecode(crCtor),
             deployed_bytecode |-> SomeDeployed(SomeBytecode(rtBare))]
       [] kind = "noabi" ->
            [abi |-> FALSE, bytecode |-> SomeBytecode(crFull),
             deployed_bytecode |-> SomeDeployed(SomeBytecode(rtFull))]
       [] kind = "nocreation" ->
            [abi |-> TRUE, bytecode |-> NoBytecode,
             deployed_bytecode |-> SomeDeployed(SomeBytecode(rtBare))]
       [] kind = "noruntime" ->
            [abi |-> TRUE, bytecode |-> SomeBytecode(crCtor),
             deployed_bytecode |-> NoDeployed]
       [] kind = "nortbc" ->
            [abi |-> TRUE, bytecode |-> SomeBytecode(crCtor),
             deployed_bytecode |-> SomeDeployed(NoBytecode)]
       [] kind = "abstract" ->
            [abi |-> TRUE, bytecode |-> SomeBytecode(<<>>),
             deployed_bytecode |-> SomeDeployed(SomeBytecode(<<>>))]

\* The compiler output for a link graph E (pairs <<unit, library>>) and a
\* kind per unit.
MkOutput(sf, E, kind) ==
  [u \in {v \in UnitsOf(sf) : kind[v] # "absent"} |->
     MkContract(u, kind[u], {e[2] : e \in {d \in E : d[1] = u}})]

NoName == [some |-> FALSE, name |-> <<>>]
SomeName(n) == [some |-> TRUE, name |-> n]

\* evm_opts.fork_url and what foundry_utils::next_nonce answers.
NoFork == [url |-> FALSE, ok |-> FALSE, count |-> 0]
ForkOk(n) == [url |-> TRUE, ok |-> TRUE, count |-> n]
ForkErr == [url |-> TRUE, ok |-> FALSE, count |-> 0]

AllFull == [u \in UnitsOf(fileF) |-> "full"]

\* Link graphs of at most n references.
Graphs(n) == {S \in SUBSET (UnitsOf(fileF) \X LibUnits) : Cardinality(S) <= n}

\* Kinds per unit with at most n units that are no plain contract.
KindMaps(sf, n) ==
  {k \in [UnitsOf(sf) -> Kinds] : Cardinality({u \in UnitsOf(sf) : k[u] # "full"}) <= n}

\* The ways of naming the target in a project whose script is sf.
Targets(sf) ==
  {<<sf, NoName>>, <<sf, SomeName(nameA)>>, <<sf, SomeName(nameZ)>>,
   <<fileG, NoName>>, <<fileG, SomeName(nameB)>>, <<fileG, SomeName(nameZ)>>}

\* Link family: every unit a plain contract, any link graph of at most
\* MaxLinkRefs references.
LinkInputs(out, p, t, fk) ==
  \E E \in Graphs(MaxLinkRefs),
     tg \in {<<fileF, NoName>>, <<fileG, NoName>>, <<fileG, SomeName(nameB)>>},
     f \in {NoFork, ForkOk(MaxCount)} :
       /\ out = MkOutput(fileF, E, AllFull)
       /\ p = tg[1] /\ t = tg[2] /\ fk = f

\* Target family: up to MaxOdd units that are no plain contract, at most one
\* link reference, every way of naming the target.
TargetInputs(out, p, t, fk) ==
  \E E \in {{}, {<<(<<fileF, nameA>>), (<<fileG, nameB>>)>>},
            {<<(<<fileF, nameA>>), (<<fileG, nameX>>)>>},
            {<<(<<fileG, nameB>>), (<<fileG, nameL>>)>>}},
     kind \in KindMaps(fileF, MaxOdd),
     tg \in Targets(fileF) :
       /\ out = MkOutput(fileF, E, kind)
       /\ p = tg[1] /\ t = tg[2] /\ fk = NoFork

\* Colon family: the script's path has a ':' in it.
ColonInputs(out, p, t, fk) ==
  \E kind \in KindMaps(fileCF, 1), tg \in Targets(fileCF) :
       /\ out = MkOutput(fileCF, {}, kind)
       /\ p = tg[1] /\ t = tg[2] /\ fk = NoFork

\* Nonce family: every answer of the remote node.
NonceInputs(out, p, t, fk) ==
  \E E \in Graphs(1), f \in {NoFork, ForkErr} \cup {ForkOk(n) : n \in 0..MaxCount} :
       /\ out = MkOutput(fileF, E, AllFull)
       /\ p = fileF /\ t = NoName /\ fk = f

Inputs(out, p, t, fk) ==
  \/ LinkInputs(out, p, t, fk)
  \/ TargetInputs(out, p, t, fk)
  \/ ColonInputs(out, p, t, fk)
  \/ NonceInputs(out, p, t, fk)

\* ---------------------------------------------------------------- state
VARIABLES
  all_contracts,             \* compiler output: (source, name) -> artifact
  path,                      \* self.path, canonicalized
  target_contract,           \* self.target_contract
  fork,                      \* evm_opts.fork_url and the node's answer
  pc,                        \* position of build: index, loop, link, select, done
  result,                    \* running, ok, or the error build ends with
  contracts,                 \* the index: key -> artifact
  link_tree,                 \* key -> link references
  nonce,                     \* starting nonce
  run_dependencies,
  contract,
  highlevel_known_contracts,
  target_fname,
  no_target_name,
  matched,
  keys,                      \* keys the for loop has not visited yet
  fname,                     \* key of the current iteration
  target_bytecode,
  target_bytecode_runtime,
  dependencies,
  stack,                     \* call stack of the linker
  args,                      \* self.evm_opts: the flags the user gave to run
  evm_opts,                  \* the local mutable copy run works with
  needs_setup,               \* the target's ABI has a function setUp
  exec,                      \* what the execution engine returned
  output,                    \* the lines the presenter printed, in order
  viewer,                    \* what the presenter handed to the debugger
  mode,                      \* the branch the presenter took
  run_result,                \* running, ok, or the error run ends with
  id,                        \* argument of get_contract_name
  contract_name              \* its return value

vars == <<all_contracts, path, target_contract, fork, pc, result, contracts,
          link_tree, nonce, run_dependencies, contract,
          highlevel_known_contracts, target_fname, no_target_name, matched,
          keys, fname, target_bytecode, target_bytecode_runtime, dependencies,
          stack, args, evm_opts, needs_setup, exec, output, viewer, mode,
          run_result, id, contract_name>>

inputVars == <<all_contracts, path, target_contract, fork>>
indexVars == <<contracts, link_tree, nonce, target_fname, no_target_name>>
iterVars == <<fname, target_bytecode, target_bytecode_runtime, dependencies, stack>>
outVars == <<run_dependencies, contract, highlevel_known_contracts, matched>>
runVars == <<args, evm_opts, needs_setup, exec, output, viewer, mode, run_result>>
utilVars == <<id, contract_name>>

EmptyMap == [k \in {} |-> EmptyContract]

\* Option<T> of the execution result's fields.
None == [some |-> FALSE, v |-> <<>>]
Some(x) == [some |-> TRUE, v |-> x]

\* EvmOpts as far as run reads it.
EvmOpts(d, v) == [debug |-> d, verbosity |-> v]

\* Nothing executed yet.
NoExec ==
  [success |-> FALSE, gas_used |-> 0, logs |-> <<>>, traces |-> None,
   identified_contracts |-> FALSE, debug_calls |-> None]

\* run has not started: its locals hold their defaults.
RunLocals ==
  /\ evm_opts = EvmOpts(FALSE, 0)
  /\ needs_setup = FALSE
  /\ exec = NoExec
  /\ output = <<>>
  /\ viewer = None
  /\ mode = "none"
  /\ run_result = "running"

\* get_contract_name is not being called.
UtilIdle ==
  /\ id = <<>>
  /\ contract_name = <<>>

\* The locals of build before its first statement.
BuildLocals ==
  /\ result = "running"
  /\ contracts = EmptyMap
  /\ link_tree = [k \in {} |-> <<>>]
  /\ nonce = 0
  /\ run_dependencies = <<>>
  /\ contract = EmptyContract
  /\ highlevel_known_contracts = EmptyMap
  /\ target_fname = <<>>
  /\ no_target_name = TRUE
  /\ matched = FALSE
  /\ keys = <<>>
  /\ fname = <<>>
  /\ target_bytecode = <<>>
  /\ target_bytecode_runtime = <<>>
  /\ dependencies = <<>>
  /\ stack = <<>>

Init ==
  /\ Inputs(all_contracts, path, target_contract, fork)
  /\ args = EvmOpts(FALSE, 0)
  /\ RunLocals
  /\ UtilIdle
  /\ pc = "index"
  /\ result = "running"
  /\ contracts = EmptyMap
  /\ link_tree = [k \in {} |-> <<>>]
  /\ nonce = 0
  /\ run_dependencies = <<>>
  /\ contract = EmptyContract
  /\ highlevel_known_contracts = EmptyMap
  /\ target_fname = <<>>
  /\ no_target_name = TRUE
  /\ matched = FALSE
  /\ keys = <<>>
  /\ fname = <<>>
  /\ target_bytecode = <<>>
  /\ target_bytecode_runtime = <<>>
  /\ dependencies = <<>>
  /\ stack = <<>>

\* ---------------------------------------------------------------- indexing
\* contracts.extend(...) over the outer then the inner BTreeMap: of several
\* pairs with one key the last one inserted stays.
IndexContracts(out) ==
  [k \in {ArtifactKey(u[1], u[2]) : u \in DOMAIN out} |->
     LET us == {u \in DOMAIN out : ArtifactKey(u[1], u[2]) = k}
         last == CHOOSE u \in us : \A v \in us \ {u} : PairLess(v, u)
     IN out[last]]

\* The references of a contract in descending order.
LinkTreeReversed(cs) ==
  [k \in DOMAIN cs |->
     LET refs == AllLinkReferences(cs[k])
     IN [i \in 1..Len(refs) |->
           [fname |-> ArtifactKey(refs[Len(refs) + 1 - i][1], refs[Len(refs) + 1 - i][2]),
            file |-> refs[Len(refs) + 1 - i][1], key |-> refs[Len(refs) + 1 - i][2]]]]

\* fname => Vec<(fname, file, key)>
LinkTree(cs) ==
  [k \in DOMAIN cs |->
     LET refs == AllLinkReferences(cs[k])
     IN [i \in 1..Len(refs) |->
           [fname |-> ArtifactKey(refs[i][1], refs[i][2]),
            file |-> refs[i][1], key |-> refs[i][2]]]]

\* The queried count itself, not the nonce after it.
QueriedCount(fk) ==
  IF fk.url THEN (IF fk.ok THEN fk.count ELSE 0) ELSE 1

\* "grab the nonce, either from the rpc node or start from 1";
\* unwrap_or_default() of a failed query is 0.
StartNonce(fk) ==
  IF fk.url THEN (IF fk.ok THEN fk.count ELSE 0) + 1 ELSE 1

\* target_fname, with ":" + name appended when a name is given.
TargetFname(p, t) == IF t.some THEN p \o <<":">> \o t.name ELSE p

\* build from the compiler output down to the head of the for loop.
Index ==
  /\ pc = "index"
  /\ contracts' = IndexContracts(all_contracts)
  /\ link_tree' = LinkTree(contracts')
  /\ nonce' = StartNonce(fork)
  /\ target_fname' = TargetFname(path, target_contract)
  /\ no_target_name' = ~target_contract.some
  /\ keys' = SortedKeys(DOMAIN contracts')
  /\ pc' = "loop"
  /\ UNCHANGED <<inputVars, runVars, utilVars, iterVars, outVars, result>>

\* ---------------------------------------------------------------- the loop
\* if let (Some(abi), Some(bytecode), Some(runtime)) = ...
HasAll(c) == c.abi /\ c.bytecode.some /\ c.deployed_bytecode.some

\* The runtime bytecode decides instead of the creation bytecode.
NeedsLinkRuntime(c) == IsUnlinked(c.deployed_bytecode.bytecode.object)

\* match bytecode.object { BytecodeObject::Unlinked(_) => link needed, .. }:
\* the creation bytecode decides.
NeedsLink(c) == IsUnlinked(c.bytecode.object)

\* One vector shared by all iterations instead of a fresh one.
SharedDependencies == dependencies

\* let mut dependencies = vec![];
FreshDependencies == <<>>

\* The default nonce instead of the one grabbed from the node.
DefaultNonce == StartNonce(NoFork)

\* The nonce handed to recurse_link.
LinkNonce == nonce

\* One frame of the linker: the contract being linked, its link references
\* still to resolve and its two bytecode objects.
Frame(target, refs, bc, rt) == [target |-> target, refs |-> refs, bc |-> bc, rt |-> rt]

\* The artifact lacks abi, bytecode or deployed bytecode: nothing is done.
LoopSkip ==
  /\ pc = "loop" /\ keys # <<>>
  /\ ~HasAll(contracts[Head(keys)])
  /\ fname' = Head(keys)
  /\ keys' = Tail(keys)
  /\ UNCHANGED <<inputVars, runVars, utilVars, indexVars, outVars, pc, result, target_bytecode,
                 target_bytecode_runtime, dependencies, stack>>

\* rt.bytecode.expect("No target runtime")
LoopNoRuntime ==
  /\ pc = "loop" /\ keys # <<>>
  /\ HasAll(contracts[Head(keys)])
  /\ ~contracts[Head(keys)].deployed_bytecode.bytecode.some
  /\ fname' = Head(keys)
  /\ result' = "panic_no_target_runtime"
  /\ pc' = "done"
  /\ UNCHANGED <<inputVars, runVars, utilVars, indexVars, outVars, keys, target_bytecode,
                 target_bytecode_runtime, dependencies, stack>>

\* BytecodeObject::Bytecode with no bytes: "abstract, skip".
LoopAbstract ==
  /\ pc = "loop" /\ keys # <<>>
  /\ LET c == contracts[Head(keys)] IN
       /\ HasAll(c) /\ c.deployed_bytecode.bytecode.some
       /\ ~NeedsLink(c)
       /\ IsEmptyBytes(c.bytecode.object)
  /\ fname' = Head(keys)
  /\ keys' = Tail(keys)
  /\ dependencies' = FreshDependencies
  /\ UNCHANGED <<inputVars, runVars, utilVars, indexVars, outVars, pc, result, target_bytecode,
                 target_bytecode_runtime, stack>>

\* BytecodeObject::Bytecode with bytes: no link needed.
LoopLinked ==
  /\ pc = "loop" /\ keys # <<>>
  /\ LET c == contracts[Head(keys)] IN
       /\ HasAll(c) /\ c.deployed_bytecode.bytecode.some
       /\ ~NeedsLink(c)
       /\ ~IsEmptyBytes(c.bytecode.object)
       /\ target_bytecode' = c.bytecode.object
       /\ target_bytecode_runtime' = c.deployed_bytecode.bytecode.object
  /\ fname' = Head(keys)
  /\ dependencies' = FreshDependencies
  /\ pc' = "select"
  /\ UNCHANGED <<inputVars, runVars, utilVars, indexVars, outVars, keys, result, stack>>

\* BytecodeObject::Unlinked: recurse_link is called on the clones.
LoopUnlinked ==
  /\ pc = "loop" /\ keys # <<>>
  /\ LET c == contracts[Head(keys)] IN
       /\ HasAll(c) /\ c.deployed_bytecode.bytecode.some
       /\ NeedsLink(c)
       /\ stack' = <<Frame(Head(keys), link_tree[Head(keys)], c.bytecode.object,
                           c.deployed_bytecode.bytecode.object)>>
  /\ fname' = Head(keys)
  /\ dependencies' = FreshDependencies
  /\ pc' = "link"
  /\ UNCHANGED <<inputVars, runVars, utilVars, indexVars, outVars, keys, result, target_bytecode,
                 target_bytecode_runtime>>

\* ---------------------------------------------------------------- linker
\* foundry_utils::recurse_link, as the design describes it: depth-first,
\* memoized on the libraries deployed so far, with the contracts being linked
\* kept on a stack.
DeploymentDependency(key, addr, code) ==
  [libraryKey |-> key, deployedAddress |-> addr, deploymentBytecode |-> code]

\* No memory of the libraries deployed so far.
NeverResolved(deps, key) == FALSE

\* The library has been resolved in this linking.
IsResolved(deps, key) == \E i \in 1..Len(deps) : deps[i].libraryKey = key

ResolvedAddress(deps, key) ==
  deps[CHOOSE i \in 1..Len(deps) : deps[i].libraryKey = key].deployedAddress

\* No check of the contracts being linked.
NeverOnStack(st, key) == FALSE

\* The contract is being linked further down the stack.
OnStack(st, key) == \E i \in 1..Len(st) : st[i].target = key

\* The address of the library deployed next: one nonce per deployment.
NextAddress(n, deps) == ContractAddress(Sender, n + Len(deps))

\* The deployment is put in front of the list.
DeployFirst(deps, d) == <<d>> \o deps

\* The deployment is appended: the list is in deployment order.
Deploy(deps, d) == Append(deps, d)

\* The artifact of a library must carry both bytecode objects.
HasBytecode(c) ==
  c.bytecode.some /\ c.deployed_bytecode.some /\ c.deployed_bytecode.bytecode.some

\* Patch the placeholders of one reference in both objects of a frame and
\* drop the reference.
Patched(fr, addr) ==
  LET r == Head(fr.refs)
  IN [fr EXCEPT !.bc = Link(fr.bc, r.file, r.key, addr),
                !.rt = Link(fr.rt, r.file, r.key, addr),
                !.refs = Tail(fr.refs)]

Top == stack[Len(stack)]
Below == SubSeq(stack, 1, Len(stack) - 1)

\* 2a: the library is already deployed in this linking; its address is reused.
LinkReuse ==
  /\ pc = "link" /\ Top.refs # <<>>
  /\ IsResolved(dependencies, Head(Top.refs).fname)
  /\ stack' = Append(Below, Patched(Top, ResolvedAddress(dependencies, Head(Top.refs).fname)))
  /\ UNCHANGED <<inputVars, runVars, utilVars, indexVars, outVars, pc, result, keys, fname,
                 target_bytecode, target_bytecode_runtime, dependencies>>

\* The library is not in the artifact index: fatal.
LinkMissing ==
  /\ pc = "link" /\ Top.refs # <<>>
  /\ ~IsResolved(dependencies, Head(Top.refs).fname)
  /\ Head(Top.refs).fname \notin DOMAIN contracts
  /\ result' = "err_missing_artifact"
  /\ pc' = "done"
  /\ UNCHANGED <<inputVars, runVars, utilVars, indexVars, outVars, keys, fname, target_bytecode,
                 target_bytecode_runtime, dependencies, stack>>

\* The library's artifact has no bytecode: fatal.
LinkNoBytecode ==
  /\ pc = "link" /\ Top.refs # <<>>
  /\ ~IsResolved(dependencies, Head(Top.refs).fname)
  /\ Head(Top.refs).fname \in DOMAIN contracts
  /\ ~HasBytecode(contracts[Head(Top.refs).fname])
  /\ result' = "err_missing_bytecode"
  /\ pc' = "done"
  /\ UNCHANGED <<inputVars, runVars, utilVars, indexVars, outVars, keys, fname, target_bytecode,
                 target_bytecode_runtime, dependencies, stack>>

\* The library is being linked already: a reference cycle, fatal.
LinkCycle ==
  /\ pc = "link" /\ Top.refs # <<>>
  /\ ~IsResolved(dependencies, Head(Top.refs).fname)
  /\ Head(Top.refs).fname \in DOMAIN contracts
  /\ HasBytecode(contracts[Head(Top.refs).fname])
  /\ OnStack(stack, Head(Top.refs).fname)
  /\ result' = "err_cycle"
  /\ pc' = "done"
  /\ UNCHANGED <<inputVars, runVars, utilVars, indexVars, outVars, keys, fname, target_bytecode,
                 target_bytecode_runtime, dependencies, stack>>

\* 2b: the library's own references are resolved first.
LinkDescend ==
  /\ pc = "link" /\ Top.refs # <<>>
  /\ LET k == Head(Top.refs).fname IN
       /\ ~IsResolved(dependencies, k)
       /\ k \in DOMAIN contracts
       /\ HasBytecode(contracts[k])
       /\ ~OnStack(stack, k)
       /\ stack' = Append(stack, Frame(k, link_tree[k], contracts[k].bytecode.object,
                                       contracts[k].deployed_bytecode.bytecode.object))
  /\ UNCHANGED <<inputVars, runVars, utilVars, indexVars, outVars, pc, result, keys, fname,
                 target_bytecode, target_bytecode_runtime, dependencies>>

\* 2b, 2c: a library is fully linked; it takes the next nonce, its bytecode is
\* appended to the dependency list and the contract that referenced it is
\* patched.
LinkReturn ==
  /\ pc = "link" /\ Top.refs = <<>> /\ Len(stack) > 1
  /\ LET addr == NextAddress(LinkNonce, dependencies)
         parent == stack[Len(stack) - 1]
     IN /\ dependencies' = Deploy(dependencies, DeploymentDependency(Top.target, addr, Top.bc))
        /\ stack' = Append(SubSeq(stack, 1, Len(stack) - 2), Patched(parent, addr))
  /\ UNCHANGED <<inputVars, runVars, utilVars, indexVars, outVars, pc, result, keys, fname,
                 target_bytecode, target_bytecode_runtime>>

\* 3: recurse_link returns to build with both objects patched.
LinkDone ==
  /\ pc = "link" /\ Top.refs = <<>> /\ Len(stack) = 1
  /\ target_bytecode' = Top.bc
  /\ target_bytecode_runtime' = Top.rt
  /\ stack' = <<>>
  /\ pc' = "select"
  /\ UNCHANGED <<inputVars, runVars, utilVars, indexVars, outVars, result, keys, fname, dependencies>>

\* ---------------------------------------------------------------- target
\* The creation bytecode stored as the deployed bytecode too.
TcCreationTwice ==
  [abi |-> TRUE, bytecode |-> SomeBytecode(target_bytecode),
   deployed_bytecode |-> SomeDeployed(SomeBytecode(target_bytecode))]

\* let tc = CompactContractBytecode { abi, bytecode: target_bytecode,
\*                                    deployed_bytecode: rt }
Tc ==
  [abi |-> TRUE, bytecode |-> SomeBytecode(target_bytecode),
   deployed_bytecode |-> SomeDeployed(SomeBytecode(target_bytecode_runtime))]

\* The comparison of the named case used for every contract.
IsTargetByKey(k) == target_fname = k

\* "if its the target contract": split[0] == target_fname without a name,
\* &target_fname == fname with one.
IsTarget(k) ==
  IF no_target_name THEN Split(k)[1] = target_fname ELSE target_fname = k

\* if split.len() > 1 { split[1] } else { split[0] }
KnownName(k) == IF Len(Split(k)) > 1 THEN Split(k)[2] ELSE Split(k)[1]

\* Nothing is stored.
KeepMap(map, k, v) == map

Insert(map, k, v) == [x \in DOMAIN map \cup {k} |-> IF x = k THEN v ELSE map[x]]

\* A second contract of the target path, no name given: eyre::bail!.
SelectBail ==
  /\ pc = "select"
  /\ no_target_name /\ IsTarget(fname) /\ matched
  /\ result' = "err_multiple_contracts"
  /\ pc' = "done"
  /\ UNCHANGED <<inputVars, runVars, utilVars, indexVars, outVars, iterVars, keys>>

\* The contract is the target: its bytecode and dependencies are kept.
SelectTarget ==
  /\ pc = "select"
  /\ IsTarget(fname) /\ ~(no_target_name /\ matched)
  /\ run_dependencies' = dependencies
  /\ contract' = Tc
  /\ matched' = TRUE
  /\ highlevel_known_contracts' = Insert(highlevel_known_contracts, KnownName(fname), Tc)
  /\ keys' = Tail(keys)
  /\ pc' = "loop"
  /\ UNCHANGED <<inputVars, runVars, utilVars, indexVars, iterVars, result>>

\* Any other contract only joins the known contracts.
SelectOther ==
  /\ pc = "select"
  /\ ~IsTarget(fname)
  /\ highlevel_known_contracts' = Insert(highlevel_known_contracts, KnownName(fname), Tc)
  /\ keys' = Tail(keys)
  /\ pc' = "loop"
  /\ UNCHANGED <<inputVars, runVars, utilVars, indexVars, iterVars, result, run_dependencies, contract, matched>>

\* Ok(BuildOutput { contract, predeploy_libraries: run_dependencies, .. })
Finish ==
  /\ pc = "loop" /\ keys = <<>>
  /\ result' = "ok"
  /\ pc' = "done"
  /\ UNCHANGED <<inputVars, runVars, utilVars, indexVars, outVars, iterVars, keys>>

\* BuildOutput.predeploy_libraries: the deployment bytecode of each entry.
PredeployLibraries ==
  [i \in 1..Len(run_dependencies) |-> run_dependencies[i].deploymentBytecode]

Next ==
  \/ Index
  \/ LoopSkip
  \/ LoopNoRuntime
  \/ LoopAbstract
  \/ LoopLinked
  \/ LoopUnlinked
  \/ LinkReuse
  \/ LinkMissing
  \/ LinkNoBytecode
  \/ LinkCycle
  \/ LinkDescend
  \/ LinkReturn
  \/ LinkDone
  \/ SelectBail
  \/ SelectTarget
  \/ SelectOther
  \/ Finish

Spec == Init /\ [][Next]_vars

\* build is sequential code: whatever step is enabled is taken.
FairSpec == Spec /\ WF_vars(Next)

TypeOK ==
  /\ pc \in {"index", "loop", "link", "select", "done"}
  /\ result \in {"running", "ok", "err_multiple_contracts", "err_missing_artifact",
                 "err_missing_bytecode", "err_cycle", "panic_no_target_runtime"}
  /\ (pc = "done") = (result # "running")

\* ================================================================ run
\* RunArgs::run: flags, build, execution, presentation of the result.
\* ---------------------------------------------------------------- run inputs
MaxVerbosity == 5
MaxLogs == 2
MaxTraces == 2

\* Builds of every outcome: linked and returned, ambiguous, failed in the
\* linker, returned with the default contract.
RunInputs(out, p, t, fk) ==
  \E E \in {{<<(<<fileF, nameA>>), (<<fileG, nameB>>)>>,
             <<(<<fileF, nameA>>), (<<fileG, nameL>>)>>,
             <<(<<fileG, nameB>>), (<<fileG, nameL>>)>>},
            {<<(<<fileF, nameA>>), (<<fileG, nameB>>)>>},
            {<<(<<fileG, nameM>>), (<<fileG, nameX>>)>>},
            {<<(<<fileG, nameB>>), (<<fileG, nameB>>)>>}},
     kind \in {AllFull,
               [AllFull EXCEPT ![<<fileG, nameB>>] = "nocreation"],
               [AllFull EXCEPT ![<<fileG, nameB>>] = "noabi",
                               ![<<fileG, nameL>>] = "abstract",
                               ![<<fileG, nameM>>] = "nortbc"]},
     tg \in {<<fileF, NoName>>, <<fileG, NoName>>, <<fileF, SomeName(nameZ)>>} :
       /\ out = MkOutput(fileF, E, kind)
       /\ p = tg[1] /\ t = tg[2] /\ fk = NoFork

\* Sequences over S of length at most n.
RECURSIVE SeqsUpTo(_, _)
SeqsUpTo(S, n) ==
  IF n = 0 THEN {<<>>}
  ELSE LET shorter == SeqsUpTo(S, n - 1)
       IN shorter \cup {Append(s, x) : s \in shorter, x \in S}

\* What the script may log and what it may cost.
LogAnswers == SeqsUpTo({"hello", "bye"}, MaxLogs)
GasAnswers == {0, 21000}

\* result.traces: no list, or the traces in the order they were recorded
\* (setup first, the call last); a trace is named by its position.
TraceAnswers == {None} \cup {Some([i \in 1..n |-> i]) : n \in 0..MaxTraces}

\* A debug arena is a vector of nodes, the root at index 0 (here 1), each
\* with the indices of its children in call order.
DebugNode(frame, children) == [frame |-> frame, children |-> children]
ArenaRoot == <<DebugNode("root", <<>>)>>
ArenaCall == <<DebugNode("root", <<2>>), DebugNode("call", <<>>)>>
ArenaNested ==
  <<DebugNode("root", <<2, 4>>),
    DebugNode("child1", <<3>>), DebugNode("grandchild1", <<>>),
    DebugNode("child2", <<5>>), DebugNode("grandchild2", <<>>)>>
Arenas == {ArenaRoot, ArenaCall, ArenaNested}

\* result.debug_calls: the engine records arenas only when debugging, one
\* per executed call (setUp, then the script's function).
DebugAnswers(opts) ==
  IF opts.debug
  THEN {None, Some(<<>>)} \cup {Some(<<a>>) : a \in Arenas}
         \cup {Some(<<a, b>>) : a \in Arenas, b \in Arenas}
  ELSE {None}

ExecutionResult(s, g, l, tr, ic, dc) ==
  [success |-> s, gas_used |-> g, logs |-> l, traces |-> tr,
   identified_contracts |-> ic, debug_calls |-> dc]

\* ---------------------------------------------------------------- run: start
RunInit ==
  /\ RunInputs(all_contracts, path, target_contract, fork)
  /\ \E d \in BOOLEAN, v \in 0..MaxVerbosity : args = EvmOpts(d, v)
  /\ pc = "start"
  /\ BuildLocals
  /\ RunLocals
  /\ UtilIdle

\* The options are extracted and debugging forces verbosity 3; build is
\* called next.
RunStart ==
  /\ pc = "start"
  /\ evm_opts' = EvmOpts(args.debug, IF args.debug THEN 3 ELSE args.verbosity)
  /\ pc' = "index"
  /\ UNCHANGED <<inputVars, utilVars, indexVars, iterVars, outVars, keys, result,
                 args, needs_setup, exec, output, viewer, mode, run_result>>

\* self.build(...)? returned an error (or panicked): so does run.
RunBuildFailed ==
  /\ pc = "done" /\ result # "ok"
  /\ run_result' = "err_build"
  /\ pc' = "returned"
  /\ UNCHANGED <<inputVars, utilVars, indexVars, iterVars, outVars, keys, result,
                 args, evm_opts, needs_setup, exec, output, viewer, mode>>

\* What stops run between build and the engine: a known contract whose
\* runtime bytecode is not bytes, a target without abi or bytecode, a target
\* whose bytecode is not bytes.
Unusable(known, c) ==
  IF \E k \in DOMAIN known :
       ~known[k].deployed_bytecode.some
       \/ ~known[k].deployed_bytecode.bytecode.some
       \/ IsUnlinked(known[k].deployed_bytecode.bytecode.object)
  THEN "panic_not_bytecode"
  ELSE IF ~c.abi THEN "panic_no_abi"
  ELSE IF ~c.bytecode.some THEN "panic_no_bytecode"
  ELSE IF IsUnlinked(c.bytecode.object) THEN "panic_unlinked"
  ELSE "usable"

RunPanic ==
  /\ pc = "done" /\ result = "ok"
  /\ Unusable(highlevel_known_contracts, contract) # "usable"
  /\ run_result' = Unusable(highlevel_known_contracts, contract)
  /\ pc' = "returned"
  /\ UNCHANGED <<inputVars, utilVars, indexVars, iterVars, outVars, keys, result,
                 args, evm_opts, needs_setup, exec, output, viewer, mode>>

\* The backend cannot be built or run_test returns an error.
RunEngineFails ==
  /\ pc = "done" /\ result = "ok"
  /\ Unusable(highlevel_known_contracts, contract) = "usable"
  /\ \E setup \in BOOLEAN : needs_setup' = setup
  /\ run_result' = "err_engine"
  /\ pc' = "returned"
  /\ UNCHANGED <<inputVars, utilVars, indexVars, iterVars, outVars, keys, result,
                 args, evm_opts, exec, output, viewer, mode>>

\* run_test returns a result, whatever the script did.
RunExecute ==
  /\ pc = "done" /\ result = "ok"
  /\ Unusable(highlevel_known_contracts, contract) = "usable"
  /\ \E setup \in BOOLEAN, s \in BOOLEAN, g \in GasAnswers, l \in LogAnswers,
        tr \in TraceAnswers, ic \in BOOLEAN, dc \in DebugAnswers(evm_opts) :
       /\ needs_setup' = setup
       /\ exec' = ExecutionResult(s, g, l, tr, ic, dc)
  /\ pc' = "present"
  /\ UNCHANGED <<inputVars, utilVars, indexVars, iterVars, outVars, keys, result,
                 args, evm_opts, output, viewer, mode, run_result>>

\* ---------------------------------------------------------------- run: presenter
\* The verbosity is looked at before the debug flag.
VerbosityFirst(opts) ==
  IF opts.verbosity > 2 THEN "verbose" ELSE IF opts.debug THEN "debug" ELSE "summary"

\* if evm_opts.debug {..} else if evm_opts.verbosity > 2 {..} else {..}
PresenterMode(opts) ==
  IF opts.debug THEN "debug" ELSE IF opts.verbosity > 2 THEN "verbose" ELSE "summary"

\* The lines println! writes.
StatusLine(s) == IF s THEN <<"Script ran successfully.">> ELSE <<"Script failed.">>
GasLine(g) == <<"Gas Used: ", g>>
LogsHeader == <<"== Logs == ">>
LogLine(l) == <<"log", l>>
EmptyLine == <<>>
Debugging == <<"debugging">>
\* trace.pretty_print(..): the rendering of one trace.
TraceLine(t) == <<"trace", t>>

\* The result without its logs.
PrintResultNoLogs(r) == <<StatusLine(r.success), GasLine(r.gas_used), LogsHeader>>

\* "5. print the result nicely"
PrintResult(r) ==
  <<StatusLine(r.success), GasLine(r.gas_used), LogsHeader>>
    \o [i \in 1..Len(r.logs) |-> LogLine(r.logs[i])]

\* The traces alone are enough.
OnlyTraces(r) == r.traces.some

\* if let (Some(traces), Some(identified_contracts)) = ..
HasTraceData(r) == r.traces.some /\ r.identified_contracts

\* !result.success && evm_opts.verbosity == 3 || evm_opts.verbosity > 3
PrintsTraces(opts, r) ==
  (~r.success /\ opts.verbosity = 3) \/ opts.verbosity > 3

\* Every trace whatever the outcome and the verbosity.
AllTraces(opts, r) == r.traces.v

\* All the traces ("print setup calls as well") or the last one.
TracesPrinted(opts, r) ==
  IF opts.verbosity > 4 \/ ~r.success THEN r.traces.v
  ELSE IF r.traces.v # <<>> THEN <<r.traces.v[Len(r.traces.v)]>>
  ELSE <<>>

PrintTraces(ts) == [i \in 1..Len(ts) |-> TraceLine(ts[i])]

\* A failed script as an error of run.
FailOnFailure(r) == IF r.success THEN "ok" ELSE "err_script_failed"

\* Ok(()) at the end of run, whatever result.success is.
Returned(r) == "ok"

\* Always the first arena.
FirstArena(setup, calls) == 0

\* let index = if needs_setup && calls.len() > 1 { 1 } else { 0 };
ArenaIndex(setup, calls) == IF setup /\ Len(calls) > 1 THEN 1 ELSE 0

\* DebugArena::flatten(entry, &mut flattened): the node, then its children's
\* flattenings in call order.
RECURSIVE Flatten(_, _)
RECURSIVE FlattenEach(_, _)
Flatten(arena, entry) ==
  <<arena[entry].frame>> \o FlattenEach(arena, arena[entry].children)

FlattenEach(arena, kids) ==
  IF kids = <<>> THEN <<>>
  ELSE Flatten(arena, Head(kids)) \o FlattenEach(arena, Tail(kids))

\* The root frame stays in the list.
KeepRoot(flattened) == flattened

\* flattened = flattened[1..].to_vec();
DropRoot(flattened) == Tail(flattened)

\* "4. Boot up debugger": the sources are read, the arena is chosen and
\* flattened, the viewer is built and started.
PresentDebug ==
  /\ pc = "present"
  /\ PresenterMode(evm_opts) = "debug"
  /\ mode' = "debug"
  /\ \E sources_ok \in BOOLEAN, tui_ok \in BOOLEAN :
       LET calls == exec.debug_calls.v
           index == ArenaIndex(needs_setup, calls)
           flattened == DropRoot(Flatten(calls[index + 1], 1))
       IN IF ~sources_ok
          THEN /\ run_result' = "panic_source"
               /\ UNCHANGED <<output, viewer>>
          ELSE IF ~exec.debug_calls.some
          THEN /\ run_result' = "panic_no_debug_calls"
               /\ UNCHANGED <<output, viewer>>
          ELSE /\ output' = Append(output, Debugging)
               /\ IF index + 1 > Len(calls)
                  THEN run_result' = "panic_index" /\ UNCHANGED viewer
                  ELSE IF ~exec.identified_contracts
                  THEN run_result' = "panic_no_identified" /\ UNCHANGED viewer
                  ELSE /\ viewer' = Some(flattened)
                       /\ run_result' = IF tui_ok THEN "ok" ELSE "err_tui"
  /\ pc' = "returned"
  /\ UNCHANGED <<inputVars, utilVars, indexVars, iterVars, outVars, keys, result,
                 args, evm_opts, needs_setup, exec>>

\* "support traces"
PresentVerbose ==
  /\ pc = "present"
  /\ PresenterMode(evm_opts) = "verbose"
  /\ mode' = "verbose"
  /\ IF HasTraceData(exec)
     THEN /\ output' =
               output
                 \o (IF PrintsTraces(evm_opts, exec)
                     THEN PrintTraces(TracesPrinted(evm_opts, exec))
                     ELSE PrintResult(exec))
                 \o <<EmptyLine>>
          /\ run_result' = Returned(exec)
     ELSE /\ run_result' = IF ~exec.traces.some THEN "err_no_traces"
                           ELSE "err_no_identified_contracts"
          /\ UNCHANGED output
  /\ pc' = "returned"
  /\ UNCHANGED <<inputVars, utilVars, indexVars, iterVars, outVars, keys, result,
                 args, evm_opts, needs_setup, exec, viewer>>

\* The plain result.
PresentSummary ==
  /\ pc = "present"
  /\ PresenterMode(evm_opts) = "summary"
  /\ mode' = "summary"
  /\ output' = output \o PrintResult(exec)
  /\ run_result' = Returned(exec)
  /\ pc' = "returned"
  /\ UNCHANGED <<inputVars, utilVars, indexVars, iterVars, outVars, keys, result,
                 args, evm_opts, needs_setup, exec, viewer>>

RunNext ==
  \/ RunStart
  \/ Next
  \/ RunBuildFailed
  \/ RunPanic
  \/ RunEngineFails
  \/ RunExecute
  \/ PresentDebug
  \/ PresentVerbose
  \/ PresentSummary

RunSpec == RunInit /\ [][RunNext]_vars

\* ================================================================ utils
\* crate::utils::get_contract_name over every short id.
MaxIdLen == 5
IdChars == {":", "c", "f", "A"}

\* id.rsplit(':').next(): the characters after the last ':', read from the
\* right end; the iterator always yields this first item.
RECURSIVE RSplitNext(_)
RSplitNext(s) ==
  IF s = <<>> THEN <<>>
  ELSE IF s[Len(s)] = ":" THEN <<>>
  ELSE Append(RSplitNext(SubSeq(s, 1, Len(s) - 1)), s[Len(s)])

\* id.split(':').next(): the piece before the first ':'.
SplitNext(s) == Split(s)[1]

\* id.rsplit(':').next().unwrap_or(id)
get_contract_name(s) == RSplitNext(s)

UtilInit ==
  /\ all_contracts = EmptyMap /\ path = <<>>
  /\ target_contract = NoName /\ fork = NoFork
  /\ args = EvmOpts(FALSE, 0)
  /\ pc = "utils"
  /\ BuildLocals
  /\ RunLocals
  /\ id \in SeqsUpTo(IdChars, MaxIdLen)
  /\ contract_name = <<>>

GetContractName ==
  /\ pc = "utils"
  /\ contract_name' = get_contract_name(id)
  /\ pc' = "utils_returned"
  /\ UNCHANGED <<inputVars, runVars, indexVars, iterVars, outVars, keys, result, id>>

UtilNext == GetContractName

UtilSpec == UtilInit /\ [][UtilNext]_vars

\* ================================================================ build, step by step
\* build over a family of inputs small enough to look at every step's
\* alternatives: link graphs of at most MaxDetRefs references over plain
\* contracts, the builds of every outcome, every answer of the remote node.
MaxDetRefs == 3

DetInputs(out, p, t, fk) ==
  \/ \E E \in Graphs(MaxDetRefs),
        tg \in {<<fileF, NoName>>, <<fileG, NoName>>, <<fileG, SomeName(nameB)>>} :
          /\ out = MkOutput(fileF, E, AllFull)
          /\ p = tg[1] /\ t = tg[2] /\ fk = NoFork
  \/ RunInputs(out, p, t, fk)
  \/ NonceInputs(out, p, t, fk)

DetInit ==
  /\ DetInputs(all_contracts, path, target_contract, fork)
  /\ args = EvmOpts(FALSE, 0)
  /\ pc = "index"
  /\ BuildLocals
  /\ RunLocals
  /\ UtilIdle

DetSpec == DetInit /\ [][Next]_vars

\* ================================================================ claims
\* ---------------------------------------------------------------- vocabulary
Done == pc = "done"
BuildOk == pc = "done" /\ result = "ok"
LinkFailures == {"err_missing_artifact", "err_missing_bytecode", "err_cycle",
                 "panic_no_target_runtime"}

\* An indexed contract the loop can select: abi and both bytecode objects
\* present, creation bytecode not empty.
Deployable(c) ==
  /\ HasAll(c)
  /\ ~(~IsUnlinked(c.bytecode.object) /\ IsEmptyBytes(c.bytecode.object))

\* The object with every patched address turned back into its placeholder.
Unpatched(obj) ==
  [i \in 1..Len(obj) |->
     IF obj[i].t = "addr" THEN PhSlot(obj[i].file, obj[i].key) ELSE obj[i]]

\* c is what build makes of the indexed contract k: same abi and code, the
\* placeholders patched.
IsBuildOf(c, k) ==
  /\ k \in DOMAIN contracts
  /\ c.abi /\ contracts[k].abi
  /\ c.bytecode.some /\ contracts[k].bytecode.some
  /\ Unpatched(c.bytecode.object) = contracts[k].bytecode.object
  /\ c.deployed_bytecode.some /\ c.deployed_bytecode.bytecode.some
  /\ contracts[k].deployed_bytecode.some
  /\ contracts[k].deployed_bytecode.bytecode.some
  /\ Unpatched(c.deployed_bytecode.bytecode.object) =
       contracts[k].deployed_bytecode.bytecode.object

\* Keys of the compiler-output contracts whose source file is the path.
InPath == {ArtifactKey(u[1], u[2]) : u \in {v \in DOMAIN all_contracts : v[1] = path}}

\* Indexed, selectable contracts whose key starts with the path, as the loop
\* compares it (first piece of the key split at ':').
Candidates == {k \in DOMAIN contracts : Deployable(contracts[k]) /\ Split(k)[1] = path}

\* The least key of a non-empty set: the one the loop visits first.
MinKey(S) == CHOOSE x \in S : \A y \in S \ {x} : StrLess(x, y)

\* ---------------------------------------------------------------- C1
\* C1: a build that returns Ok returns exactly one of the indexed contracts
\* as its target; with no matching contract it does not return Ok with the
\* empty default contract.
C1_ExactlyOneTarget ==
  BuildOk => \E k \in DOMAIN contracts : IsBuildOf(contract, k)

C3_NamedTarget ==
  (Done /\ ~no_target_name) =>
     /\ (target_fname \notin DOMAIN contracts) => result # "ok"
     /\ (target_fname \in DOMAIN contracts /\ result = "ok") =>
          IsBuildOf(contract, target_fname)

\* ---------------------------------------------------------------- link graph
\* The libraries the indexed contract k references.
RefsOf(k) ==
  IF k \in DOMAIN link_tree
  THEN {link_tree[k][i].fname : i \in 1..Len(link_tree[k])} ELSE {}

\* The libraries reachable from the keys in front by one or more references.
RECURSIVE ReachFrom(_, _)
ReachFrom(front, seen) ==
  LET new == UNION {RefsOf(k) : k \in front} \ seen
  IN IF new = {} THEN seen ELSE ReachFrom(new, seen \cup new)

Closure(k) == ReachFrom({k}, {})

\* The contract build selected: the first selectable key that is the target.
TargetKeys == {k \in DOMAIN contracts : Deployable(contracts[k]) /\ IsTarget(k)}
Selected == MinKey(TargetKeys)

\* The library keys of a dependency list.
KeySet(deps) == {deps[i].libraryKey : i \in 1..Len(deps)}

\* Every patched slot of the object carries the address the list gives its
\* library.
PatchedFrom(obj, deps) ==
  \A i \in 1..Len(obj) :
     obj[i].t = "addr" =>
        \E j \in 1..Len(deps) :
           /\ deps[j].libraryKey = ArtifactKey(obj[i].file, obj[i].key)
           /\ deps[j].deployedAddress = obj[i].a

\* ---------------------------------------------------------------- C4
\* C4: once a target is selected, the dependency list build keeps for it
\* holds exactly the libraries the target reaches through link references,
\* none that only other contracts need, and the addresses patched into the
\* target are those of that list; this stays so while the other contracts
\* are linked and when build returns.
C4_TargetDependencies ==
  (matched /\ result \in {"running", "ok"}) =>
     /\ TargetKeys # {}
     /\ KeySet(run_dependencies) = Closure(Selected)
     /\ IsBuildOf(contract, Selected)
     /\ PatchedFrom(contract.bytecode.object, run_dependencies)
     /\ PatchedFrom(contract.deployed_bytecode.bytecode.object, run_dependencies)

\* Build returned Ok with a target that needs a library, after linking
\* another contract that needs a library the target does not.
C4_Witness ==
  /\ BuildOk /\ matched
  /\ run_dependencies # <<>>
  /\ \E k \in DOMAIN contracts :
        /\ k # Selected
        /\ Deployable(contracts[k])
        /\ Closure(k) \ Closure(Selected) # {}

\* ---------------------------------------------------------------- C5
\* The slots of the object patched for one library all carry one address.
OneAddressPerLibrary(obj) ==
  \A i, j \in 1..Len(obj) :
     (obj[i].t = "addr" /\ obj[j].t = "addr" /\ obj[i].file = obj[j].file
        /\ obj[i].key = obj[j].key) => obj[i].a = obj[j].a

NoDuplicates(deps) ==
  \A i, j \in 1..Len(deps) : deps[i].libraryKey = deps[j].libraryKey => i = j

\* The number of placeholders and patched slots of the object that belong to
\* library key.
Occurrences(obj, key) ==
  Cardinality({i \in 1..Len(obj) :
                 obj[i].t # "op" /\ ArtifactKey(obj[i].file, obj[i].key) = key})

\* C5: no library key occurs twice in a dependency list, at any point of the
\* linking and in the list build returns, and all placeholders of one
\* library are patched with one address, in the contract being linked, in
\* every deployed library and in the target.
C5_Deduplicated ==
  /\ NoDuplicates(dependencies)
  /\ NoDuplicates(run_dependencies)
  /\ \A i \in 1..Len(stack) :
        OneAddressPerLibrary(stack[i].bc \o stack[i].rt)
  /\ \A i \in 1..Len(dependencies) :
        OneAddressPerLibrary(dependencies[i].deploymentBytecode)
  /\ contract.bytecode.some =>
        OneAddressPerLibrary(contract.bytecode.object \o
                             contract.deployed_bytecode.bytecode.object)

\* Build returned Ok for a target with several placeholders of one library,
\* and that library is also referenced by another library of the list.
C5_Witness ==
  /\ BuildOk /\ matched
  /\ \E i \in 1..Len(run_dependencies) :
        LET l == run_dependencies[i].libraryKey IN
          /\ Occurrences(contract.bytecode.object, l) >= 2
          /\ \E j \in 1..Len(run_dependencies) :
                l \in RefsOf(run_dependencies[j].libraryKey)

\* ---------------------------------------------------------------- C6
\* C6: in every dependency list a library comes before every library that
\* references it, and the list build keeps names no library twice.
DependenciesFirst(deps) ==
  \A i, j \in 1..Len(deps) :
     deps[i].libraryKey \in RefsOf(deps[j].libraryKey) => i < j

C6_DependenciesFirst ==
  /\ DependenciesFirst(dependencies)
  /\ DependenciesFirst(run_dependencies)
  /\ NoDuplicates(run_dependencies)

\* The diamond: the target references two libraries that both reference a
\* third, which is in the list once and before both.
C6_Witness ==
  /\ BuildOk /\ matched
  /\ Len(run_dependencies) = 3
  /\ \E a, b \in RefsOf(Selected) :
        /\ a # b
        /\ run_dependencies[1].libraryKey \in RefsOf(a) \cap RefsOf(b)
        /\ {run_dependencies[2].libraryKey, run_dependencies[3].libraryKey} = {a, b}

\* ---------------------------------------------------------------- C7
\* C7: the i-th entry (0-based) of a dependency list has the address derived
\* from the sender and the starting nonce plus i, no two entries share an
\* address, and the addresses patched into the target are those entries'.
NonceOrder(deps) ==
  /\ \A i \in 1..Len(deps) :
        deps[i].deployedAddress = ContractAddress(Sender, nonce + (i - 1))
  /\ \A i, j \in 1..Len(deps) :
        deps[i].deployedAddress = deps[j].deployedAddress => i = j

C7_NonceOrder ==
  /\ NonceOrder(dependencies)
  /\ NonceOrder(run_dependencies)
  /\ contract.bytecode.some =>
       /\ PatchedFrom(contract.bytecode.object, run_dependencies)
       /\ PatchedFrom(contract.deployed_bytecode.bytecode.object, run_dependencies)

\* Build returned Ok from a starting nonce above 1 with a nested library in
\* a list of two or more.
C7_Witness ==
  /\ BuildOk /\ matched
  /\ nonce > 1
  /\ Len(run_dependencies) >= 2
  /\ \E i \in 1..Len(run_dependencies) : RefsOf(run_dependencies[i].libraryKey) # {}
  /\ run_dependencies[Len(run_dependencies)].deployedAddress =
       ContractAddress(Sender, nonce + Len(run_dependencies) - 1)

\* ---------------------------------------------------------------- C8
RECURSIVE SumRefs(_)
SumRefs(st) == IF st = <<>> THEN 0 ELSE Len(Head(st).refs) + SumRefs(Tail(st))

RECURSIVE TotalRefs(_, _)
TotalRefs(lt, ks) ==
  IF ks = {} THEN 0
  ELSE LET k == CHOOSE x \in ks : TRUE IN Len(lt[k]) + TotalRefs(lt, ks \ {k})

\* A variant of build: a natural number that every step makes smaller. It
\* counts the keys left to visit; within one visit, the indexed contracts
\* that are neither on the linker's stack nor deployed, then the references
\* the frames of the stack still have to resolve.
Measure ==
  LET cs == IF pc = "index" THEN IndexContracts(all_contracts) ELSE contracts
      lt == IF pc = "index" THEN LinkTree(cs) ELSE link_tree
      K == Cardinality(DOMAIN cs)
      T == TotalRefs(lt, DOMAIN lt)
      Big == (K + 1) * (T + 1) + 2
      V == Cardinality(DOMAIN cs \ ({stack[i].target : i \in 1..Len(stack)}
                                     \cup KeySet(dependencies)))
  IN CASE pc = "index" -> (K + 1) * Big + 1
       [] pc = "loop" -> Len(keys) * Big + Big
       [] pc = "link" -> Len(keys) * Big + 2 + V * (T + 1) + SumRefs(stack)
       [] pc = "select" -> Len(keys) * Big + 1
       [] pc = "done" -> 0

\* Some library the contract reaches (or the contract itself) reaches itself.
HasCycle(k) == \E l \in Closure(k) \cup {k} : l \in Closure(l)

C8_Ends == <>Done

\* ---------------------------------------------------------------- C9
\* C9: a build that returns Ok has a target without placeholders in its
\* creation and runtime bytecode, each placeholder of the compiled target
\* replaced by an address of the dependency list, and every library the
\* target reaches is in the artifact index; with a library missing, build
\* does not return Ok.
C9_FullyLinked ==
  BuildOk =>
     /\ \A k \in TargetKeys : Closure(k) \subseteq DOMAIN contracts
     /\ matched =>
          /\ IsBuildOf(contract, Selected)
          /\ ~IsUnlinked(contract.bytecode.object)
          /\ ~IsUnlinked(contract.deployed_bytecode.bytecode.object)
          /\ PatchedFrom(contract.bytecode.object, run_dependencies)
          /\ PatchedFrom(contract.deployed_bytecode.bytecode.object, run_dependencies)

\* Build returned Ok for a target compiled with placeholders in its creation
\* and in its runtime bytecode; none is left.
C9_Witness ==
  /\ BuildOk /\ matched
  /\ IsUnlinked(contracts[Selected].bytecode.object)
  /\ IsUnlinked(contracts[Selected].deployed_bytecode.bytecode.object)
  /\ ~IsUnlinked(contract.bytecode.object)
  /\ ~IsUnlinked(contract.deployed_bytecode.bytecode.object)

\* ---------------------------------------------------------------- C10
\* C10: a build that returns Ok for a target without library references
\* returns an empty dependency list (no nonce is used) and the target's
\* creation and runtime bytecode as compiled.
C10_NoReferences ==
  (BuildOk /\ matched /\ link_tree[Selected] = <<>>) =>
     /\ run_dependencies = <<>>
     /\ PredeployLibraries = <<>>
     /\ contract.bytecode.object = contracts[Selected].bytecode.object
     /\ contract.deployed_bytecode.bytecode.object =
          contracts[Selected].deployed_bytecode.bytecode.object

\* Build returned Ok for a target without references, in an artifact set
\* where another contract was linked against a library.
C10_Witness ==
  /\ BuildOk /\ matched
  /\ link_tree[Selected] = <<>>
  /\ run_dependencies = <<>>
  /\ \E k \in DOMAIN contracts : Deployable(contracts[k]) /\ link_tree[k] # <<>>

\* ---------------------------------------------------------------- C11
\* C11: once the index is built the starting nonce is 1 without a remote
\* endpoint and the queried transaction count plus 1 with one; a failed query
\* does not end the build, which goes on from the default 1; and that one
\* nonce is the seed of every dependency list: the first library deployed
\* for any contract gets the address of (sender, starting nonce).
SeededBy(deps, n) ==
  deps # <<>> => deps[1].deployedAddress = ContractAddress(Sender, n)

C11_StartingNonce ==
  pc # "index" =>
    /\ ~fork.url => nonce = 1
    /\ fork.url /\ fork.ok => nonce = fork.count + 1
    /\ fork.url /\ ~fork.ok => nonce = 1
    /\ SeededBy(dependencies, nonce)
    /\ SeededBy(run_dependencies, nonce)

\* Build returned Ok with a linked target although the query for the
\* transaction count failed.
C11_Witness ==
  /\ BuildOk /\ matched
  /\ fork.url /\ ~fork.ok
  /\ run_dependencies # <<>>
  /\ run_dependencies[1].deployedAddress = ContractAddress(Sender, 1)

\* ---------------------------------------------------------------- run vocabulary
Returns == pc = "returned"
\* run got as far as the presenter and is back from it.
Presented == pc = "returned" /\ mode # "none"
\* The errors run ends with before anything is executed or presented.
EarlyErrors ==
  {"err_build", "err_engine", "panic_not_bytecode", "panic_no_abi",
   "panic_no_bytecode", "panic_unlinked"}

IsTraceLine(l) == Len(l) = 2 /\ l[1] = "trace"
IsLogLine(l) == Len(l) = 2 /\ l[1] = "log"
IsStatusLine(l) == l = <<"Script ran successfully.">> \/ l = <<"Script failed.">>
IsGasLine(l) == Len(l) = 2 /\ l[1] = "Gas Used: "
Second(lines) == [i \in 1..Len(lines) |-> lines[i][2]]
\* The traces and the logs the output shows, in the order it shows them.
PrintedTraces == Second(SelectSeq(output, IsTraceLine))
PrintedLogs == Second(SelectSeq(output, IsLogLine))
Shows(Is(_)) == \E i \in 1..Len(output) : Is(output[i])

\* ---------------------------------------------------------------- C12
\* C12: a run that reaches the presenter takes exactly one of three modes,
\* decided by the flags the user gave: debug if and only if the debug flag
\* is set, whatever the verbosity; otherwise verbose-trace if and only if the
\* verbosity is above 2; otherwise summary. Before the presenter no mode is
\* taken, and what is rendered belongs to one mode: only debug mode hands
\* frames to the viewer, debug mode prints neither result nor traces, summary
\* mode prints no trace, and no output has both traces and a result line.
C12_OneMode ==
  /\ mode \in {"none", "debug", "verbose", "summary"}
  /\ pc # "returned" => mode = "none"
  /\ Returns /\ run_result \notin EarlyErrors => mode # "none"
  /\ mode # "none" =>
       /\ (mode = "debug") = args.debug
       /\ (mode = "verbose") = (~args.debug /\ args.verbosity > 2)
       /\ (mode = "summary") = (~args.debug /\ args.verbosity <= 2)
  /\ viewer.some => mode = "debug"
  /\ mode = "debug" => ~Shows(IsStatusLine) /\ ~Shows(IsTraceLine)
  /\ mode = "summary" => ~Shows(IsTraceLine)
  /\ ~(Shows(IsTraceLine) /\ Shows(IsStatusLine))

\* The debugger was started for a user who also asked for the highest
\* verbosity.
C12_Witness ==
  /\ Presented /\ mode = "debug"
  /\ args.debug /\ args.verbosity > 2
  /\ viewer.some /\ run_result = "ok"

\* ---------------------------------------------------------------- C13
\* C13 as stated: in verbose-trace mode with traces and identified contracts
\* present, every trace is printed when the run failed or the verbosity is
\* above 4, only the last one when the run succeeded at verbosity 4, and
\* whenever the trace list is not empty at least one trace is printed.
C13_AsStated ==
  Presented /\ mode = "verbose" /\ exec.traces.some /\ exec.identified_contracts =>
    /\ ~exec.success \/ evm_opts.verbosity > 4 => PrintedTraces = exec.traces.v
    /\ exec.success /\ evm_opts.verbosity = 4 /\ exec.traces.v # <<>> =>
         PrintedTraces = <<exec.traces.v[Len(exec.traces.v)]>>
    /\ exec.traces.v # <<>> => PrintedTraces # <<>>

\* C13 amended: as above, but a run that succeeded at verbosity 3 prints no
\* trace at all: it prints the result (status, gas, logs) as summary mode
\* does. At least one trace is printed exactly when the trace list is not
\* empty and the run failed or the verbosity is above 3.
C13_Traces ==
  Presented /\ mode = "verbose" /\ exec.traces.some /\ exec.identified_contracts =>
    /\ ~exec.success \/ evm_opts.verbosity > 4 => PrintedTraces = exec.traces.v
    /\ exec.success /\ evm_opts.verbosity = 4 /\ exec.traces.v # <<>> =>
         PrintedTraces = <<exec.traces.v[Len(exec.traces.v)]>>
    /\ exec.success /\ evm_opts.verbosity = 3 =>
         /\ PrintedTraces = <<>>
         /\ output[1] = <<"Script ran successfully.">>
         /\ PrintedLogs = exec.logs
    /\ (PrintedTraces # <<>>) =
         (exec.traces.v # <<>> /\ (~exec.success \/ evm_opts.verbosity > 3))

\* A successful run at verbosity 4 with two traces showed the last one only.
C13_Witness ==
  /\ Presented /\ mode = "verbose"
  /\ exec.success /\ evm_opts.verbosity = 4
  /\ exec.identified_contracts /\ exec.traces.some /\ Len(exec.traces.v) = 2
  /\ PrintedTraces = <<2>>

\* ---------------------------------------------------------------- C14
\* C14: in verbose-trace mode run returns Ok if and only if the result has
\* both the traces and the identified contracts; when either is absent it
\* ends with the "unexpected error ... report this as a bug" error for the
\* one that is missing (the traces first) and has printed nothing.
C14_TraceData ==
  Presented /\ mode = "verbose" =>
    /\ (run_result = "ok") = (exec.traces.some /\ exec.identified_contracts)
    /\ ~exec.traces.some => run_result = "err_no_traces" /\ output = <<>>
    /\ exec.traces.some /\ ~exec.identified_contracts =>
         run_result = "err_no_identified_contracts" /\ output = <<>>

\* Traces were recorded but the identified contracts are missing.
C14_Witness ==
  /\ Presented /\ mode = "verbose"
  /\ exec.traces.some /\ exec.traces.v # <<>> /\ ~exec.identified_contracts
  /\ run_result = "err_no_identified_contracts"

\* ---------------------------------------------------------------- C15
\* The arena the claim says is shown: the second when the target has a setUp
\* and more than one arena was recorded, the first otherwise.
ChosenArena ==
  IF needs_setup /\ Len(exec.debug_calls.v) > 1
  THEN exec.debug_calls.v[2] ELSE exec.debug_calls.v[1]

\* C15: in debug mode run is fatal when the result has no debug arenas (or
\* an empty list of them) and the viewer gets nothing; when the viewer gets
\* its frames they are those of arena 1 if setup ran and more than one arena
\* exists, of arena 0 otherwise, in call order (pre-order) without the root:
\* one frame less than the arena has, no root among them, and child1,
\* grandchild1, child2, grandchild2 for root -> {child1 -> grandchild1,
\* child2 -> grandchild2}.
C15_DebugFrames ==
  Presented /\ mode = "debug" =>
    /\ ~exec.debug_calls.some \/ exec.debug_calls.v = <<>> =>
         ~viewer.some /\ run_result \notin {"ok", "running"}
    /\ run_result = "ok" => viewer.some
    /\ viewer.some =>
         /\ Len(viewer.v) = Len(ChosenArena) - 1
         /\ \A i \in 1..Len(viewer.v) :
              viewer.v[i] = ChosenArena[i + 1].frame /\ viewer.v[i] # "root"
         /\ ChosenArena = ArenaNested =>
              viewer.v = <<"child1", "grandchild1", "child2", "grandchild2">>

\* Setup ran, two arenas were recorded, and the nested second one is shown.
C15_Witness ==
  /\ Presented /\ mode = "debug" /\ run_result = "ok"
  /\ needs_setup
  /\ exec.debug_calls.v = <<ArenaCall, ArenaNested>>
  /\ viewer = Some(<<"child1", "grandchild1", "child2", "grandchild2">>)

\* ---------------------------------------------------------------- C16
\* C16: a script that fails is no error of run. With result.success = false,
\* summary mode prints "Script failed." and returns Ok, and verbose-trace
\* mode with traces and identified contracts prints every trace and returns
\* Ok. When run ends with an error, it is one of: build failed, the build
\* output is unusable, the engine call failed, the trace data is missing in
\* verbose-trace mode, or debug mode could not start its viewer.
C16_FailureIsOk ==
  /\ Presented /\ ~exec.success /\ mode = "summary" =>
       run_result = "ok" /\ Shows(IsStatusLine) /\ output[1] = <<"Script failed.">>
  /\ Presented /\ ~exec.success /\ mode = "verbose"
       /\ exec.traces.some /\ exec.identified_contracts =>
       run_result = "ok" /\ PrintedTraces = exec.traces.v
  /\ Returns /\ run_result # "ok" =>
       \/ mode = "none" /\ run_result \in EarlyErrors
       \/ mode = "verbose" /\ ~(exec.traces.some /\ exec.identified_contracts)
       \/ mode = "debug"
  /\ Returns /\ run_result = "err_build" => result # "ok"

\* A failed script at verbosity 3: both traces shown, run returned Ok.
C16_Witness ==
  /\ Presented /\ mode = "verbose" /\ evm_opts.verbosity = 3
  /\ ~exec.success /\ exec.identified_contracts
  /\ exec.traces.some /\ Len(exec.traces.v) = 2
  /\ PrintedTraces = <<1, 2>>
  /\ run_result = "ok"

\* ---------------------------------------------------------------- C17
\* C17: the output of summary mode is the pass/fail line, the gas used, the
\* "== Logs ==" heading and then every log of the result, in the result's
\* order, each once; it has no trace in it, whatever traces the result has.
C17_Summary ==
  Presented /\ mode = "summary" =>
    /\ Len(output) = 3 + Len(exec.logs)
    /\ output[1] = (IF exec.success THEN <<"Script ran successfully.">>
                    ELSE <<"Script failed.">>)
    /\ output[2] = <<"Gas Used: ", exec.gas_used>>
    /\ output[3] = <<"== Logs == ">>
    /\ \A i \in 1..Len(exec.logs) : output[3 + i] = <<"log", exec.logs[i]>>
    /\ PrintedLogs = exec.logs
    /\ PrintedTraces = <<>>

\* Gas 21000 and the logs hello, bye were printed; the two traces of the
\* result were not.
C17_Witness ==
  /\ Presented /\ mode = "summary" /\ run_result = "ok"
  /\ exec.gas_used = 21000 /\ exec.logs = <<"hello", "bye">>
  /\ exec.traces.some /\ Len(exec.traces.v) = 2
  /\ output = <<StatusLine(exec.success), <<"Gas Used: ", 21000>>, <<"== Logs == ">>,
                <<"log", "hello">>, <<"log", "bye">>>>

\* ---------------------------------------------------------------- C18
\* Deployable contracts of the output whose source file is the path.
DeployableInPath == {k \in InPath : k \in DOMAIN contracts /\ Deployable(contracts[k])}

\* C18: without a name, a path that holds exactly one deployable contract
\* (next to any number of interfaces and artifacts without abi or bytecode)
\* resolves to it: unless linking failed, build returns Ok with that contract
\* as target, never the ambiguous-target error; and the target of any build
\* is a deployable contract, never a skipped one.
C18_InterfacesDoNotCount ==
  /\ (Done /\ no_target_name /\ Cardinality(DeployableInPath) = 1
        /\ result \notin LinkFailures) =>
       /\ result = "ok" /\ matched
       /\ \A k \in DeployableInPath : IsBuildOf(contract, k)
  /\ (BuildOk /\ matched) =>
       \E k \in DOMAIN contracts : Deployable(contracts[k]) /\ IsBuildOf(contract, k)

\* ---------------------------------------------------------------- C19
\* C19: the index has one key per (source file, contract name) pair of the
\* compiler output, no two pairs share a key, and splitting a key at ':' as
\* the loop does gives back the pair: the first piece is the source file and
\* the name the contract is known by is the contract name.
C19_KeyRoundTrip ==
  pc \in {"loop", "link", "select", "done"} =>
    /\ \A u, v \in DOMAIN all_contracts :
         ArtifactKey(u[1], u[2]) = ArtifactKey(v[1], v[2]) => u = v
    /\ DOMAIN contracts = {ArtifactKey(u[1], u[2]) : u \in DOMAIN all_contracts}
    /\ \A u \in DOMAIN all_contracts :
         /\ Split(ArtifactKey(u[1], u[2]))[1] = u[1]
         /\ KnownName(ArtifactKey(u[1], u[2])) = u[2]
    /\ DOMAIN highlevel_known_contracts \subseteq {u[2] : u \in DOMAIN all_contracts}

\* ---------------------------------------------------------------- C20
HasColon(s) == \E i \in 1..Len(s) : s[i] = ":"

\* C20: get_contract_name returns the characters after the last ':' of the
\* id, the whole id when it has no ':'; so for id = file + ":" + name with a
\* name free of ':' it returns name, whatever ':' the file has.
C20_ContractName ==
  pc = "utils_returned" =>
    /\ ~HasColon(contract_name)
    /\ ~HasColon(id) => contract_name = id
    /\ \E n \in 0..Len(id) :
         /\ contract_name = SubSeq(id, n + 1, Len(id))
         /\ n > 0 => id[n] = ":"
    /\ \A n \in 1..Len(id) :
         LET file == SubSeq(id, 1, n - 1)
             name == SubSeq(id, n + 1, Len(id))
         IN (id = ArtifactKey(file, name) /\ ~HasColon(name)) => contract_name = name

\* The id c:f:A, whose file part has a ':', gave A.
C20_Witness ==
  /\ pc = "utils_returned"
  /\ id = ArtifactKey(fileCF, nameA)
  /\ contract_name = nameA

\* ---------------------------------------------------------------- C21
\* The contracts still to visit are in ascending key order and come after
\* every contract already visited.
KeysInOrder ==
  /\ \A i, j \in 1..Len(keys) : i < j => StrLess(keys[i], keys[j])
  /\ \A i \in 1..Len(keys) :
       /\ keys[i] \in DOMAIN contracts
       /\ \A k \in DOMAIN contracts :
            (\A j \in 1..Len(keys) : keys[j] # k) => StrLess(k, keys[i])

\* The references still to resolve of every contract being linked are in
\* ascending (file, key) order.
RefsInOrder ==
  \A n \in 1..Len(stack) :
    \A i, j \in 1..Len(stack[n].refs) :
      i < j => PairLess(<<stack[n].refs[i].file, stack[n].refs[i].key>>,
                        <<stack[n].refs[j].file, stack[n].refs[j].key>>)

\* Every step of build has one possible outcome: no other successor state
\* exists than the one taken.
OneSuccessor == \A c \in {vars'} : ~ENABLED (Next /\ vars' # c)

\* C21: build is deterministic. It starts from a state fixed by the artifact
\* set, path, target name, starting nonce and sender, every step it takes has
\* exactly one possible outcome, and it visits contracts in ascending key
\* order and link references in ascending (file, key) order: two builds over
\* the same inputs go through the same states and return the same target,
\* dependency list and patched addresses.
C21_Deterministic ==
  /\ [](KeysInOrder /\ RefsInOrder)
  /\ [][OneSuccessor]_vars

\* Build returned Ok after linking a target with two or more libraries, one
\* of them nested, while other contracts were indexed.
C21_Witness ==
  /\ BuildOk /\ matched
  /\ Len(run_dependencies) >= 2
  /\ \E i \in 1..Len(run_dependencies) : RefsOf(run_dependencies[i].libraryKey) # {}
  /\ Cardinality(DOMAIN contracts) >= 3
  /\ Cardinality(DOMAIN highlevel_known_contracts) >= 3

\* ---------------------------------------------------------------- C22
\* e is the linked build of the indexed, deployable contract k.
LinkedBuildOf(e, k) ==
  /\ k \in DOMAIN contracts
  /\ Deployable(contracts[k])
  /\ IsBuildOf(e, k)
  /\ ~IsUnlinked(e.bytecode.object)
  /\ ~IsUnlinked(e.deployed_bytecode.bytecode.object)

\* C22: every entry of highlevel_known_contracts is the build of an indexed
\* contract with abi, creation and runtime bytecode and non-empty creation
\* bytecode, stored under the name taken from its key, and has no placeholder
\* left in either bytecode. When build returns Ok every such contract of the
\* index has its entry, target or not, so each of them was linked: all the
\* libraries it reaches are indexed with bytecode and none of them is on a
\* cycle. A contract that cannot be linked therefore keeps build from
\* returning Ok, whichever contract is the target.
C22_KnownContracts ==
  /\ \A n \in DOMAIN highlevel_known_contracts :
       \E k \in DOMAIN contracts :
         KnownName(k) = n /\ LinkedBuildOf(highlevel_known_contracts[n], k)
  /\ BuildOk =>
       \A k \in DOMAIN contracts :
         Deployable(contracts[k]) =>
           /\ KnownName(k) \in DOMAIN highlevel_known_contracts
           /\ LinkedBuildOf(highlevel_known_contracts[KnownName(k)], k)
           /\ Closure(k) \subseteq DOMAIN contracts
           /\ \A l \in Closure(k) : HasBytecode(contracts[l])
           /\ ~HasCycle(k)

\* Build returned Ok; a contract that is neither the target nor one of the
\* target's libraries was compiled with placeholders and is known linked.
C22_Witness ==
  /\ BuildOk /\ matched
  /\ \E k \in DOMAIN contracts :
       /\ k # Selected /\ k \notin Closure(Selected)
       /\ IsUnlinked(contracts[k].bytecode.object)
       /\ KnownName(k) \in DOMAIN highlevel_known_contracts
       /\ ~IsUnlinked(highlevel_known_contracts[KnownName(k)].bytecode.object)

====
